---- MODULE Spec2Model ----
(***************************************************************************)
(* State controller of apexApi (src/src/routes/state.js): the five request *)
(* handlers getStates, getState, createState, updateState and deleteState, *)
(* the asyncHandler wrapper that turns a thrown error into a response, and *)
(* the "states" table the handlers reach through the Prisma client.        *)
(*                                                                         *)
(* A request is a task that runs from one await to the next; the statements*)
(* it sends to the table are atomic one by one and interleave freely with  *)
(* the statements of the other request in flight.                          *)
(*                                                                         *)
(* Text (path parameters, query values, state names) is a sequence of      *)
(* one-character strings, so that parseInt, length checks, substring       *)
(* search and ordering are computed character by character.                *)
(***************************************************************************)
EXTENDS Integers, Sequences, FiniteSets, TLC

VARIABLES
    states,           \* the rows of the "states" table
    nextId,           \* the table's auto-increment counter
    clock,            \* the store's clock, read for createdAt / updatedAt
    uniqueStateName,  \* whether the table declares stateName unique
    req,              \* per request slot: the handler in flight and its locals
    out               \* the response sent by the last step, if it sent one

vars == <<states, nextId, clock, uniqueStateName, req, out>>

\* ------------------------------------------------------------------ bounds
\* The store's clock stops here: at most MaxClock inserts and updates happen.
MaxClock == 3

\* ------------------------------------------------------- program constants
MaxNameLen == 255
MinNameLen == 1
DefaultPage == 1
DefaultLimit == 10

\* ---------------------------------------------------------------- text
Rep(c, n) == [i \in 1..n |-> c]

Undefined == <<"undefined">>

Digits == {"0", "1", "2", "3", "4", "5", "6", "7", "8", "9"}

DigitVal(c) ==
    CASE c = "0" -> 0 [] c = "1" -> 1 [] c = "2" -> 2 [] c = "3" -> 3
      [] c = "4" -> 4 [] c = "5" -> 5 [] c = "6" -> 6 [] c = "7" -> 7
      [] c = "8" -> 8 [] c = "9" -> 9

\* A JavaScript number that may be NaN.
NaN == [nan |-> TRUE, n |-> 0]
Num(n) == [nan |-> FALSE, n |-> n]

RECURSIVE SkipSpace(_)
SkipSpace(s) == IF s # <<>> /\ Head(s) = " " THEN SkipSpace(Tail(s)) ELSE s

\* The value of the longest prefix of decimal digits of s, acc digits read so far.
RECURSIVE ReadDigits(_, _)
ReadDigits(s, acc) ==
    IF s # <<>> /\ Head(s) \in Digits
    THEN ReadDigits(Tail(s), 10 * acc + DigitVal(Head(s)))
    ELSE acc

\* parseInt(string): leading blanks skipped, an optional sign, then the digits
\* up to the first character that is none; NaN when there is no digit.
\* parseInt(undefined) reads the text "undefined" and is NaN.
parseInt(str) ==
    LET s    == SkipSpace(str)
        neg  == s # <<>> /\ Head(s) = "-"
        body == IF s # <<>> /\ Head(s) \in {"-", "+"} THEN Tail(s) ELSE s
    IN  IF body = <<>> \/ Head(body) \notin Digits
        THEN NaN
        ELSE Num(IF neg THEN 0 - ReadDigits(body, 0) ELSE ReadDigits(body, 0))

\* x || d for a number x: d when x is NaN or 0.
OrDefault(x, d) == IF x.nan \/ x.n = 0 THEN d ELSE x.n

Max(a, b) == IF a >= b THEN a ELSE b
Min(a, b) == IF a <= b THEN a ELSE b

\* Math.ceil(a / b) for a >= 0, b >= 1.
Ceil(a, b) == IF a % b = 0 THEN a \div b ELSE (a \div b) + 1

\* ---------------------------------------------------------------- JSON
\* A JSON value: its type and, for a string, its text.
JStr(s) == [t |-> "string", v |-> s]
JNum(s) == [t |-> "number", v |-> s]

\* A JSON object is a set of key/value pairs with distinct keys.
Keys(obj) == {p.k : p \in obj}
Pair(k, v) == [k |-> k, v |-> v]
HasKey(obj, k) == k \in Keys(obj)
Field(obj, k) == (CHOOSE p \in obj : p.k = k).v

\* -------------------------------------------------------------- errors
\* A thrown error as asyncHandler's catch sees it: status 0 is "no status
\* property"; errors is err.errors (empty: undefined); target is
\* err.meta.target, an array of column names or one name (items empty: none).
NoTarget == [isArray |-> FALSE, items |-> <<>>]

\* createError(status, message) of http-errors: exposed below 500.
createError(status, message) ==
    [name |-> "HttpError", status |-> status, expose |-> status < 500,
     code |-> "", target |-> NoTarget, message |-> message, errors |-> {}]

\* What schema.parseAsync throws: no status, no expose, its issues in errors.
ZodError(issues) ==
    [name |-> "ZodError", status |-> 0, expose |-> FALSE,
     code |-> "", target |-> NoTarget, message |-> "zod issues", errors |-> issues]

\* Prisma.PrismaClientKnownRequestError with its code and meta.target.
PrismaKnownError(code, target) ==
    [name |-> "PrismaClientKnownRequestError", status |-> 0, expose |-> FALSE,
     code |-> code, target |-> target, message |-> "prisma " \o code, errors |-> {}]

Issue(key, type, message) == [key |-> key, type |-> type, message |-> message]

\* ----------------------------------------------------------- responses
NoRows == <<>>

Response(status, errors, rows, message) ==
    [status |-> status, errors |-> errors, rows |-> rows, message |-> message,
     page |-> 0, totalPages |-> 0, totalStates |-> 0]

NoResponse == Response(0, {}, NoRows, "")

ErrorResponse(status, errors) == Response(status, errors, NoRows, "")

\* asyncHandler without the P2002 branch.
asyncHandlerUniqueAs500(err) ==
    IF err.status = 400 /\ err.expose
    THEN ErrorResponse(400, IF err.errors # {} THEN err.errors
                            ELSE {Issue("message", "", err.message)})
    ELSE IF err.name = "PrismaClientValidationError"
    THEN ErrorResponse(400, {Issue("message", "", err.message)})
    ELSE ErrorResponse(500, {Issue("message", "", "Internal Server Error")})

\* The catch of asyncHandler, branch by branch in the source's order.
asyncHandler(err) ==
    IF err.status = 400 /\ err.expose
    THEN ErrorResponse(400, IF err.errors # {} THEN err.errors
                            ELSE {Issue("message", "", err.message)})
    ELSE IF err.name = "PrismaClientValidationError"
    THEN ErrorResponse(400, {Issue("message", "", err.message)})
    ELSE IF /\ err.name = "PrismaClientKnownRequestError"
            /\ err.code = "P2002"
            /\ err.target.items # <<>>
    THEN LET field == err.target.items[1]
             message == "A record with that " \o field \o " already exists."
         IN  ErrorResponse(400, {Issue(field, "unique", message)})
    ELSE ErrorResponse(500, {Issue("message", "", "Internal Server Error")})

\* ----------------------------------------------------------------- zod
\* StateNameIssues without the .max(255) check.
StateNameIssuesNoMax(v, tooSmall) ==
    IF v.t # "string" THEN {[key |-> "stateName", type |-> "invalid_type", message |-> "Expected string"]}
    ELSE IF Len(v.v) < MinNameLen THEN {[key |-> "stateName", type |-> "too_small", message |-> tooSmall]}
    ELSE {}

\* The issues of z.string().min(1).max(255) on the value under stateName.
StateNameIssues(v, tooSmall) ==
    IF v.t # "string" THEN {Issue("stateName", "invalid_type", "Expected string")}
    ELSE IF Len(v.v) < MinNameLen THEN {Issue("stateName", "too_small", tooSmall)}
    ELSE IF Len(v.v) > MaxNameLen
         THEN {Issue("stateName", "too_big", "String must contain at most 255 character(s)")}
    ELSE {}

\* StripUnknown as a passthrough object schema: every key is kept.
StripUnknownPassthrough(body) == body

\* z.object({...}) keeps the declared keys and strips every other key.
StripUnknown(body) == {p \in body : p.k = "stateName"}

\* createSchema with the minimum length off by one: .min(2).
createSchemaMin2(body) ==
    LET issues == IF ~HasKey(body, "stateName")
                  THEN {Issue("stateName", "invalid_type", "Required")}
                  ELSE IF /\ Field(body, "stateName").t = "string"
                          /\ Len(Field(body, "stateName").v) < 2
                  THEN {Issue("stateName", "too_small", "State name is required")}
                  ELSE StateNameIssues(Field(body, "stateName"), "State name is required")
    IN  [issues |-> issues, data |-> StripUnknown(body)]

\* createState's schema: stateName is required.
createSchema(body) ==
    LET issues == IF HasKey(body, "stateName")
                  THEN StateNameIssues(Field(body, "stateName"), "State name is required")
                  ELSE {Issue("stateName", "invalid_type", "Required")}
    IN  [issues |-> issues, data |-> StripUnknown(body)]

\* updateState's schema: stateName is optional, and the refinement asks for at
\* least one key in the parsed (stripped) object.
updateSchema(body) ==
    LET inner == IF HasKey(body, "stateName")
                 THEN StateNameIssues(Field(body, "stateName"),
                                      "String must contain at least 1 character(s)")
                 ELSE {}
        data  == StripUnknown(body)
        issues == IF inner # {} THEN inner
                  ELSE IF Cardinality(Keys(data)) > 0 THEN {}
                  ELSE {Issue("", "custom", "At least one field is required")}
    IN  [issues |-> issues, data |-> data]

\* "Remove undefined fields": the keys whose value is undefined are deleted.
dataToUpdate(validatedData) == {p \in validatedData : p.v.t # "undefined"}

\* ----------------------------------------------------------- the table
Row(id, stateName, createdAt, updatedAt) ==
    [id |-> id, stateName |-> stateName, createdAt |-> createdAt, updatedAt |-> updatedAt]

Ids(rows) == {r.id : r \in rows}

\* prisma.states.findUnique({ where: { id } }): the row or null (no row).
findUnique(id) == {r \in states : r.id = id}

\* The table rejects a stateName another row holds, when it declares it unique.
UniqueViolation(data, selfId) ==
    /\ uniqueStateName
    /\ HasKey(data, "stateName")
    /\ \E r \in states : r.id # selfId /\ r.stateName = Field(data, "stateName").v

\* err.meta.target of a P2002 error: an array of names or a single name.
Targets == {[isArray |-> TRUE, items |-> <<"stateName">>],
            [isArray |-> FALSE, items |-> <<"stateName">>]}

\* The row prisma.states.create inserts: the id is the table's next
\* auto-increment value and both timestamps are the store's now.
CreatedRow(data, now) == Row(nextId, Field(data, "stateName").v, now, now)

\* The row prisma.states.update leaves: each key of data written over the
\* row's column, updatedAt set to the store's now.
UpdatedRow(row, data, now) ==
    Row(IF HasKey(data, "id") THEN ReadDigits(Field(data, "id").v, 0) ELSE row.id,
        IF HasKey(data, "stateName") THEN Field(data, "stateName").v ELSE row.stateName,
        row.createdAt,
        now)

\* ------------------------------------------------------------ requests
Slots == {"r1", "r2"}

NoQuery == [page |-> Undefined, limit |-> Undefined, search |-> Undefined,
            sortBy |-> Undefined, sortOrder |-> Undefined]

\* A slot with no request in flight.
Idle ==
    [op |-> "none", pc |-> "idle", idParam |-> <<>>, body |-> {}, query |-> NoQuery,
     id |-> 0, page |-> 0, limit |-> 0, data |-> {}, existing |-> {},
     found |-> NoRows, foundDone |-> FALSE, total |-> 0, countDone |-> FALSE,
     res |-> NoResponse]

NoOut == Idle

\* The request r is answered with res and its slot is free again.
Reply(s, r, res) ==
    /\ req' = [req EXCEPT ![s] = Idle]
    /\ out' = [r EXCEPT !.pc = "done", !.res = res]

\* The request goes on as r, waiting for the store.
Await(s, r) ==
    /\ req' = [req EXCEPT ![s] = r]
    /\ out' = NoOut

\* !id for id = parseInt(...): NaN and 0 are falsy.
InvalidId(id) == id.nan \/ id.n = 0

Init ==
    /\ states = {}
    /\ nextId = 1
    /\ clock = 0
    /\ uniqueStateName \in BOOLEAN
    /\ req = [s \in Slots |-> Idle]
    /\ out = NoOut

\* ------------------------------------------------------------ getState
getState(s, idParam) ==
    /\ req[s].pc = "idle"
    /\ LET id == parseInt(idParam)
           r  == [Idle EXCEPT !.op = "getState", !.idParam = idParam]
       IN  IF InvalidId(id)
           THEN Reply(s, r, asyncHandler(createError(400, "Invalid state ID")))
           ELSE Await(s, [r EXCEPT !.pc = "findUnique", !.id = id.n])
    /\ UNCHANGED <<states, nextId, clock, uniqueStateName>>

getState_findUnique(s) ==
    /\ req[s].op = "getState" /\ req[s].pc = "findUnique"
    /\ LET state == findUnique(req[s].id)
           r     == [req[s] EXCEPT !.existing = state]
       IN  IF state = {}
           THEN Reply(s, r, asyncHandler(createError(404, "State not found")))
           ELSE Reply(s, r, Response(200, {}, <<CHOOSE x \in state : TRUE>>, ""))
    /\ UNCHANGED <<states, nextId, clock, uniqueStateName>>

\* --------------------------------------------------------- createState
createState(s, body) ==
    /\ req[s].pc = "idle"
    /\ LET parsed == createSchema(body)
           r      == [Idle EXCEPT !.op = "createState", !.body = body]
       IN  IF parsed.issues # {}
           THEN Reply(s, r, asyncHandler(ZodError(parsed.issues)))
           ELSE Await(s, [r EXCEPT !.pc = "create", !.data = parsed.data])
    /\ UNCHANGED <<states, nextId, clock, uniqueStateName>>

createState_create(s) ==
    /\ req[s].op = "createState" /\ req[s].pc = "create"
    /\ IF UniqueViolation(req[s].data, 0)
       THEN /\ \E target \in Targets :
                 Reply(s, req[s], asyncHandler(PrismaKnownError("P2002", target)))
            /\ UNCHANGED <<states, nextId, clock>>
       ELSE /\ clock < MaxClock
            /\ LET state == CreatedRow(req[s].data, clock + 1)
               IN  /\ states' = states \cup {state}
                   /\ Reply(s, req[s], Response(201, {}, <<state>>, ""))
            /\ nextId' = nextId + 1
            /\ clock' = clock + 1
    /\ UNCHANGED uniqueStateName

\* --------------------------------------------------------- updateState
updateState(s, idParam, body) ==
    /\ req[s].pc = "idle"
    /\ LET id     == parseInt(idParam)
           parsed == updateSchema(body)
           r      == [Idle EXCEPT !.op = "updateState", !.idParam = idParam, !.body = body]
       IN  IF InvalidId(id)
           THEN Reply(s, r, asyncHandler(createError(400, "Invalid state ID")))
           ELSE IF parsed.issues # {}
           THEN Reply(s, [r EXCEPT !.id = id.n], asyncHandler(ZodError(parsed.issues)))
           ELSE Await(s, [r EXCEPT !.pc = "findUnique", !.id = id.n, !.data = parsed.data])
    /\ UNCHANGED <<states, nextId, clock, uniqueStateName>>

updateState_findUnique(s) ==
    /\ req[s].op = "updateState" /\ req[s].pc = "findUnique"
    /\ LET existing == findUnique(req[s].id)
           r        == [req[s] EXCEPT !.existing = existing]
       IN  IF existing = {}
           THEN Reply(s, r, asyncHandler(createError(404, "State not found")))
           ELSE Await(s, [r EXCEPT !.pc = "update", !.data = dataToUpdate(req[s].data)])
    /\ UNCHANGED <<states, nextId, clock, uniqueStateName>>

updateState_update(s) ==
    /\ req[s].op = "updateState" /\ req[s].pc = "update"
    /\ LET now == findUnique(req[s].id)
       IN  IF now = {}
           THEN /\ Reply(s, req[s], asyncHandler(PrismaKnownError("P2025", NoTarget)))
                /\ UNCHANGED <<states, clock>>
           ELSE IF UniqueViolation(req[s].data, req[s].id)
           THEN /\ \E target \in Targets :
                     Reply(s, req[s], asyncHandler(PrismaKnownError("P2002", target)))
                /\ UNCHANGED <<states, clock>>
           ELSE /\ clock < MaxClock
                /\ LET row     == CHOOSE x \in now : TRUE
                       updated == UpdatedRow(row, req[s].data, clock + 1)
                   IN  /\ states' = (states \ {row}) \cup {updated}
                       /\ Reply(s, req[s], Response(200, {}, <<updated>>, ""))
                /\ clock' = clock + 1
    /\ UNCHANGED <<nextId, uniqueStateName>>

\* --------------------------------------------------------- deleteState
deleteState(s, idParam) ==
    /\ req[s].pc = "idle"
    /\ LET id == parseInt(idParam)
           r  == [Idle EXCEPT !.op = "deleteState", !.idParam = idParam]
       IN  IF InvalidId(id)
           THEN Reply(s, r, asyncHandler(createError(400, "Invalid state ID")))
           ELSE Await(s, [r EXCEPT !.pc = "findUnique", !.id = id.n])
    /\ UNCHANGED <<states, nextId, clock, uniqueStateName>>

deleteState_findUnique(s) ==
    /\ req[s].op = "deleteState" /\ req[s].pc = "findUnique"
    /\ LET existing == findUnique(req[s].id)
           r        == [req[s] EXCEPT !.existing = existing]
       IN  IF existing = {}
           THEN Reply(s, r, asyncHandler(createError(404, "State not found")))
           ELSE Await(s, [r EXCEPT !.pc = "delete"])
    /\ UNCHANGED <<states, nextId, clock, uniqueStateName>>

\* deleteState_delete with a removal that succeeds when the row is gone.
deleteState_deleteIdempotent(s) ==
    /\ req[s].op = "deleteState" /\ req[s].pc = "delete"
    /\ states' = states \ findUnique(req[s].id)
    /\ Reply(s, req[s], Response(200, {}, NoRows, "State deleted successfully"))
    /\ UNCHANGED <<nextId, clock, uniqueStateName>>

\* prisma.states.delete throws P2025 when the row is no longer there.
deleteState_delete(s) ==
    /\ req[s].op = "deleteState" /\ req[s].pc = "delete"
    /\ LET now == findUnique(req[s].id)
       IN  IF now = {}
           THEN /\ Reply(s, req[s], asyncHandler(PrismaKnownError("P2025", NoTarget)))
                /\ UNCHANGED states
           ELSE /\ states' = states \ now
                /\ Reply(s, req[s], Response(200, {}, NoRows, "State deleted successfully"))
    /\ UNCHANGED <<nextId, clock, uniqueStateName>>

\* ----------------------------------------------------------- getStates
\* { stateName: { contains: search } }: search occurs somewhere in name.
Contains(name, search) ==
    \E i \in 0..(Len(name) - Len(search)) : SubSeq(name, i + 1, i + Len(search)) = search

\* The where clause: every row when search is empty (falsy), else the rows
\* whose stateName contains it.
where(search) ==
    IF search # <<>> THEN {r \in states : Contains(r.stateName, search)} ELSE states

Code(c) == CASE c = "a" -> 97 [] c = "b" -> 98 [] OTHER -> 0

RECURSIVE TextLeq(_, _)
TextLeq(x, y) ==
    IF x = <<>> THEN TRUE
    ELSE IF y = <<>> THEN FALSE
    ELSE IF Head(x) = Head(y) THEN TextLeq(Tail(x), Tail(y))
    ELSE Code(Head(x)) < Code(Head(y))

\* The texts the handler compares query values with, and the column names.
TxtName == <<"n", "a", "m", "e">>
TxtStateName == <<"s", "t", "a", "t", "e", "N", "a", "m", "e">>
TxtId == <<"i", "d">>
TxtCreatedAt == <<"c", "r", "e", "a", "t", "e", "d", "A", "t">>
TxtUpdatedAt == <<"u", "p", "d", "a", "t", "e", "d", "A", "t">>
TxtAsc == <<"a", "s", "c">>
TxtDesc == <<"d", "e", "s", "c">>

\* r1 may stand before r2 under orderBy: { [field]: order }.
InOrder(r1, r2, field, order) ==
    LET leq(a, b) == CASE field = TxtStateName -> TextLeq(a.stateName, b.stateName)
                       [] field = TxtCreatedAt -> a.createdAt <= b.createdAt
                       [] field = TxtUpdatedAt -> a.updatedAt <= b.updatedAt
                       [] field = TxtId        -> a.id <= b.id
    IN  IF order = TxtDesc THEN leq(r2, r1) ELSE leq(r1, r2)

\* The orders the store may return rows in: every arrangement that respects
\* orderBy (rows with equal keys come in any order).
Ordered(rows, field, order) ==
    LET n == Cardinality(rows)
    IN  {f \in [1..n -> rows] :
            /\ \A i, j \in 1..n : i # j => f[i] # f[j]
            /\ \A i, j \in 1..n : i < j => InOrder(f[i], f[j], field, order)}

\* rows from position skip + 1 on, at most take of them.
Slice(rows, skip, take) == SubSeq(rows, skip + 1, Min(Len(rows), skip + take))

\* prisma.states.findMany({ where, skip, take, orderBy }): the possible pages.
findMany(search, skip, take, field, order) ==
    {Slice(f, skip, take) : f \in Ordered(where(search), field, order)}

\* prisma.states.count({ where }).
count(search) == Cardinality(where(search))

\* A destructuring default: d when the query value is undefined.
Default(v, d) == IF v = Undefined THEN d ELSE v

\* The frontend's sort field "name" is the column stateName.
mappedSortBy(sortBy) == IF sortBy = TxtName THEN TxtStateName ELSE sortBy

effectivePage(query) == Max(1, OrDefault(parseInt(query.page), DefaultPage))

\* effectiveLimit falling back to the page default.
effectiveLimitPageDefault(query) == Max(1, OrDefault(parseInt(query.limit), DefaultPage))

effectiveLimit(query) == Max(1, OrDefault(parseInt(query.limit), DefaultLimit))

\* totalPages rounded down instead of up.
totalPagesFloor(total, limit) == total \div limit

totalPages(total, limit) == Ceil(total, limit)

ListResponse(r) ==
    [Response(200, {}, r.found, "") EXCEPT
        !.page = r.page, !.totalPages = totalPages(r.total, r.limit), !.totalStates = r.total]

\* The handler up to await Promise.all: both queries are sent.
getStates(s, query) ==
    /\ req[s].pc = "idle"
    /\ Await(s, [Idle EXCEPT !.op = "getStates", !.pc = "queries", !.query = query,
                             !.page = effectivePage(query), !.limit = effectiveLimit(query)])
    /\ UNCHANGED <<states, nextId, clock, uniqueStateName>>

\* One of the two queries completes; the response is sent when both have.
Resolve(s, r) ==
    IF r.foundDone /\ r.countDone THEN Reply(s, r, ListResponse(r)) ELSE Await(s, r)

getStates_findMany(s) ==
    /\ req[s].op = "getStates" /\ req[s].pc = "queries" /\ ~req[s].foundDone
    /\ LET q    == req[s].query
           skip == (req[s].page - 1) * req[s].limit
       IN  \E rows \in findMany(Default(q.search, <<>>), skip, req[s].limit,
                                mappedSortBy(Default(q.sortBy, TxtStateName)),
                                Default(q.sortOrder, TxtAsc)) :
               Resolve(s, [req[s] EXCEPT !.found = rows, !.foundDone = TRUE])
    /\ UNCHANGED <<states, nextId, clock, uniqueStateName>>

getStates_count(s) ==
    /\ req[s].op = "getStates" /\ req[s].pc = "queries" /\ ~req[s].countDone
    /\ Resolve(s, [req[s] EXCEPT !.total = count(Default(req[s].query.search, <<>>)),
                                 !.countDone = TRUE])
    /\ UNCHANGED <<states, nextId, clock, uniqueStateName>>

\* -------------------------------------------------------------- inputs
A255 == Rep("a", MaxNameLen)
A256 == Rep("a", MaxNameLen + 1)

IdParams == {<<"x">>, <<"0">>, <<"-", "1">>, <<"1">>, <<"2">>, <<"2", "x">>}

Bodies ==
    { {},
      {Pair("stateName", JStr(<<>>))},
      {Pair("stateName", JStr(<<"a">>))},
      {Pair("stateName", JStr(<<"b">>))},
      {Pair("stateName", JStr(A255))},
      {Pair("stateName", JStr(A256))},
      {Pair("stateName", JNum(<<"5">>))},
      {Pair("id", JNum(<<"9">>))},
      {Pair("stateName", JStr(<<"b">>)), Pair("id", JNum(<<"9">>))} }

\* The requests of the concurrent specification: two in flight at once.
IdParamsC == {<<"1">>, <<"2">>}

BodiesC ==
    { {Pair("stateName", JStr(<<"a">>))},
      {Pair("stateName", JStr(A255)), Pair("id", JNum(<<"9">>))},
      {Pair("stateName", JStr(A256))} }

\* Two requests in flight, their store statements interleaved.
Next ==
    \/ \E s \in Slots, idParam \in IdParamsC : getState(s, idParam)
    \/ \E s \in Slots : getState_findUnique(s)
    \/ \E s \in Slots, body \in BodiesC : createState(s, body)
    \/ \E s \in Slots : createState_create(s)
    \/ \E s \in Slots, idParam \in IdParamsC, body \in BodiesC : updateState(s, idParam, body)
    \/ \E s \in Slots : updateState_findUnique(s)
    \/ \E s \in Slots : updateState_update(s)
    \/ \E s \in Slots, idParam \in IdParamsC : deleteState(s, idParam)
    \/ \E s \in Slots : deleteState_findUnique(s)
    \/ \E s \in Slots : deleteState_delete(s)

Spec == Init /\ [][Next]_vars

\* One request at a time, over the wider inputs.
NextSeq ==
    \/ \E idParam \in IdParams : getState("r1", idParam)
    \/ getState_findUnique("r1")
    \/ \E body \in Bodies : createState("r1", body)
    \/ createState_create("r1")
    \/ \E idParam \in IdParams, body \in Bodies : updateState("r1", idParam, body)
    \/ updateState_findUnique("r1")
    \/ updateState_update("r1")
    \/ \E idParam \in IdParams : deleteState("r1", idParam)
    \/ deleteState_findUnique("r1")
    \/ deleteState_delete("r1")

SpecSeq == Init /\ [][NextSeq]_vars

\* The list requests: each page value and each limit value with the other
\* parameters left out, the second page under the limits 1 and 2, a request
\* with both malformed, and the search and sort variants.
PageParams == {Undefined, <<"x">>, <<"0">>, <<"-", "1">>, <<"1">>, <<"2">>}
LimitParams == {Undefined, <<"x">>, <<"0">>, <<"-", "2">>, <<"1">>, <<"2">>}

Queries ==
    {[NoQuery EXCEPT !.page = p] : p \in PageParams}
    \cup
    {[NoQuery EXCEPT !.limit = l] : l \in LimitParams}
    \cup
    {[NoQuery EXCEPT !.page = <<"2">>, !.limit = l] : l \in {<<"1">>, <<"2">>}}
    \cup
    {[NoQuery EXCEPT !.page = <<"0">>, !.limit = <<"-", "2">>]}
    \cup
    {[NoQuery EXCEPT !.search = q, !.sortBy = f, !.sortOrder = TxtDesc] :
        q \in {<<>>, <<"a">>}, f \in {TxtName, TxtId}}

BodiesL == { {Pair("stateName", JStr(<<"a">>))}, {Pair("stateName", JStr(<<"b">>))} }

\* A list request on r1 while r2 creates and deletes.
NextList ==
    \/ \E query \in Queries : getStates("r1", query)
    \/ getStates_findMany("r1")
    \/ getStates_count("r1")
    \/ \E body \in BodiesL : createState("r2", body)
    \/ createState_create("r2")
    \/ \E idParam \in IdParamsC : deleteState("r2", idParam)
    \/ deleteState_findUnique("r2")
    \/ deleteState_delete("r2")

SpecList == Init /\ [][NextList]_vars

\* ============================================================== claims
\* The last step answered a request of handler op.
Answered(op) == out.pc = "done" /\ out.op = op

\* The body carries a stateName that is a string of 1 to 255 characters.
BodyHasValidName(body) ==
    \E p \in body : p.k = "stateName" /\ p.v.t = "string"
                    /\ Len(p.v.v) >= 1 /\ Len(p.v.v) <= 255

BodyName(body) == (CHOOSE p \in body : p.k = "stateName").v.v

\* The path id reads as a positive integer.
PositiveId(idParam) == ~parseInt(idParam).nan /\ parseInt(idParam).n > 0

InternalError == {Issue("message", "", "Internal Server Error")}

\* C1: get-by-id, update with a valid body, and delete of a positive id that
\* matches no record are answered 404 (and leave the store unchanged).
C1_MissingIdIs404 ==
    (/\ out.pc = "done"
     /\ out.op \in {"getState", "updateState", "deleteState"}
     /\ PositiveId(out.idParam)
     /\ out.op = "updateState" => BodyHasValidName(out.body)
     /\ out.existing = {}
     /\ out.id \notin Ids(states))
    => out.res.status = 404

\* C2: a create whose body violates the schema is answered 400 with errors
\* keyed by the offending field.
C2_InvalidCreateIs400 ==
    (Answered("createState") /\ ~BodyHasValidName(out.body))
    => /\ out.res.status = 400
       /\ \E e \in out.res.errors : e.key = "stateName"

\* C3: an update addressed to a positive id that matches no record is answered
\* not-found whatever its body.
C3_UpdateMissingIsNotFound ==
    (/\ Answered("updateState")
     /\ PositiveId(out.idParam)
     /\ out.existing = {}
     /\ out.id \notin Ids(states))
    => out.res.status = 404

\* C4 as stated: a create with a stateName of 1 to 255 characters is always
\* answered 201.
C4_ValidCreateIs201 ==
    (Answered("createState") /\ BodyHasValidName(out.body)) => out.res.status = 201

\* C4 amended: a create with a stateName of 1 to 255 characters is answered 201
\* and inserts exactly one row, under an id no stored row has and with that
\* name, unless the table declares stateName unique and a row already holds
\* the name (then: 400, nothing inserted); a get-by-id of a stored id answers
\* 200 with the stored row; and a stored row changes or goes only by a
\* successful update or delete of its id.
C4_CreateThenGet ==
    [][ /\ (out'.pc = "done" /\ out'.op = "createState" /\ BodyHasValidName(out'.body))
           => IF uniqueStateName /\ \E r \in states : r.stateName = BodyName(out'.body)
              THEN out'.res.status = 400 /\ states' = states
              ELSE /\ out'.res.status = 201
                   /\ Len(out'.res.rows) = 1
                   /\ LET row == out'.res.rows[1]
                      IN  /\ row.id \notin Ids(states)
                          /\ row.stateName = BodyName(out'.body)
                          /\ states' = states \cup {row}
        /\ (out'.pc = "done" /\ out'.op = "getState" /\ out'.id \in Ids(states))
           => /\ out'.res.status = 200
              /\ Len(out'.res.rows) = 1
              /\ out'.res.rows[1] \in states
              /\ out'.res.rows[1].id = out'.id
        /\ \A r \in states : r \notin states'
              => /\ out'.pc = "done"
                 /\ out'.op \in {"updateState", "deleteState"}
                 /\ out'.id = r.id
                 /\ out'.res.status = 200 ]_vars

\* A valid create was answered 201 and a later get-by-id returned its row.
C4_Witness ==
    /\ Answered("getState")
    /\ out.res.status = 200
    /\ Len(out.res.rows) = 1
    /\ out.res.rows[1].stateName = A255
    /\ Cardinality(states) = 2

\* C5: a list response has totalPages = ceil(totalStates / limit) and at most
\* limit rows, also when creates and deletes run between its two queries.
C5_Pagination ==
    Answered("getStates")
    => /\ out.res.status = 200
       /\ out.limit >= 1
       /\ out.res.totalPages >= 0
       /\ out.res.totalPages * out.limit >= out.res.totalStates
       /\ (out.res.totalPages - 1) * out.limit < out.res.totalStates
       /\ Len(out.res.rows) <= out.limit

\* A list answered with one row on a page of one although the count, taken
\* after a concurrent delete, is zero.
C5_Witness ==
    /\ Answered("getStates")
    /\ out.limit = 1
    /\ Len(out.res.rows) = 1
    /\ out.res.totalStates = 0
    /\ out.res.totalPages = 0

MalformedParams == {Undefined, <<"x">>, <<"0">>, <<"-", "1">>, <<"-", "2">>}
NegativeParams == {<<"-", "1">>, <<"-", "2">>}

\* C6 as stated: a malformed page or limit (missing, non-numeric, zero or
\* negative) makes the effective page 1 and the effective limit 10.
C6_MalformedToDefaults ==
    Answered("getStates")
    => /\ out.res.status = 200
       /\ out.query.page \in MalformedParams => out.res.page = 1
       /\ out.query.limit \in MalformedParams => out.limit = 10

\* C6 amended: a malformed page or limit is never rejected; a missing,
\* non-numeric, zero or negative page becomes 1; a missing, non-numeric or
\* zero limit becomes 10; a negative limit becomes 1.
C6_Coercion ==
    Answered("getStates")
    => /\ out.res.status = 200
       /\ out.query.page \in MalformedParams => out.res.page = 1
       /\ out.query.limit \in (MalformedParams \ NegativeParams) => out.limit = 10
       /\ out.query.limit \in NegativeParams => out.limit = 1

\* A list with a negative limit was answered with an effective limit of 1.
C6_Witness ==
    /\ Answered("getStates")
    /\ out.query.limit \in NegativeParams
    /\ out.limit = 1
    /\ out.res.status = 200

\* C7: a successful update replaces the addressed row by one with the same id
\* and createdAt and the body's stateName, leaves every other row alone, and
\* sends the store no key other than stateName.
C7_UpdateFrame ==
    [][ (out'.pc = "done" /\ out'.op = "updateState" /\ out'.res.status = 200)
        => /\ Keys(out'.data) \subseteq {"stateName"}
           /\ \A p \in out'.data : p.v.t = "string"
           /\ Len(out'.res.rows) = 1
           /\ \E old \in states :
                 LET new == out'.res.rows[1]
                 IN  /\ old.id = out'.id
                     /\ new.id = old.id
                     /\ new.createdAt = old.createdAt
                     /\ new.stateName = BodyName(out'.body)
                     /\ states' = (states \ {old}) \cup {new} ]_vars

\* An update whose body also carried an id key succeeded beside another row.
C7_Witness ==
    /\ Answered("updateState")
    /\ out.res.status = 200
    /\ HasKey(out.body, "id")
    /\ Cardinality(states) = 2
    /\ \E r \in states : r.id = out.id /\ r.stateName = A255 /\ r.updatedAt > r.createdAt

UniqueErrors ==
    {Issue("stateName", "unique", "A record with that stateName already exists.")}

\* C9: when the table declares stateName unique, the create or update statement
\* that meets a row already holding the name is answered 400 with the unique
\* error under stateName and changes nothing; when it does not, a create with
\* a valid name is answered 201 although a row holds the name.
C9_Uniqueness ==
    [][ \A s \in Slots :
          /\ (/\ uniqueStateName
              /\ req[s].pc = "create" /\ req'[s].pc = "idle"
              /\ \E r \in states : r.stateName = BodyName(req[s].body))
             => out'.res.status = 400 /\ out'.res.errors = UniqueErrors /\ states' = states
          /\ (/\ uniqueStateName
              /\ req[s].pc = "update" /\ req'[s].pc = "idle"
              /\ req[s].id \in Ids(states)
              /\ \E r \in states : r.id # req[s].id /\ r.stateName = BodyName(req[s].body))
             => out'.res.status = 400 /\ out'.res.errors = UniqueErrors /\ states' = states
          /\ (/\ ~uniqueStateName
              /\ req[s].pc = "create" /\ req'[s].pc = "idle")
             => out'.res.status = 201 /\ Cardinality(states') = Cardinality(states) + 1
      ]_vars

\* A create was refused as a duplicate of a stored name.
C9_Witness ==
    /\ uniqueStateName
    /\ Answered("createState")
    /\ out.res.status = 400
    /\ out.res.errors = UniqueErrors
    /\ \E r \in states : r.stateName = BodyName(out.body)

====
